---------------------------- MODULE Spec2Model ----------------------------
(***************************************************************************)
(* Model of the prediction-market analyser: the market fetcher and         *)
(* normaliser (services/polymarketService, both drafts kept in the         *)
(* repository), the analysis proxy (server/index.js), the client           *)
(* analyzeMarket (services/geminiService.ts) and the App handlers.         *)
(*                                                                         *)
(* JavaScript numbers are integers in units of 1/10000 (0.65 is 6500);     *)
(* NaN, +Infinity and -Infinity are the three sentinels below.  Strings    *)
(* are tokens; Number(), String() and JSON.parse() on a token are tables.  *)
(***************************************************************************)
EXTENDS Integers, Sequences, FiniteSets, TLC

\* ------------------------------------------------------------------ bounds

\* Largest number of sub-markets in an event payload drawn by the model.
MaxSubMarkets == 2

\* ----------------------------------------------------------- JS numbers

One == 100 * 100
PosInf == 1000 * 1000 * 1000
NegInf == 0 - PosInf
NaN == NegInf - 1

IsFinite(v) == v \notin {NaN, PosInf, NegInf}
IsNaN(v) == v = NaN

Max2(a, b) == IF a >= b THEN a ELSE b
Min2(a, b) == IF a <= b THEN a ELSE b

\* Number(entry) for the tokens the model draws; any other text is NaN.
NumberOf(tok) ==
    CASE tok = "0"        -> 0
      [] tok = "1"        -> One
      [] tok = "2"        -> 2 * One
      [] tok = "3"        -> 3 * One
      [] tok = "5"        -> 5 * One
      [] tok = "6"        -> 6 * One
      [] tok = "7"        -> 7 * One
      [] tok = "8"        -> 8 * One
      [] tok = "0.2"      -> 2000
      [] tok = "0.35"     -> 3500
      [] tok = "0.5"      -> 5000
      [] tok = "0.65"     -> 6500
      [] tok = "1.01"     -> 10100
      [] tok = "1.5"      -> 15000
      [] tok = "-0.5"     -> 0 - 5000
      [] tok = "35"       -> 35 * One
      [] tok = "65"       -> 65 * One
      [] tok = "80"       -> 80 * One
      [] tok = "150"      -> 150 * One
      [] tok = "-5"       -> 0 - 5 * One
      [] tok = "10"       -> 10 * One
      [] tok = "500"      -> 500 * One
      [] tok = "Infinity" -> PosInf
      [] tok = ""         -> 0
      [] OTHER            -> NaN

\* Whether JSON.parse(tok) succeeds on the bare token (a JSON scalar).
IsJsonScalar(tok) ==
    tok \in {"0", "1", "0.2", "0.35", "0.5", "0.65", "1.01", "1.5", "-0.5",
             "35", "65", "150", "10", "500", "true", "null"}

\* The characters of a token, for code that indexes into a string.
TokenChars(tok) ==
    CASE tok = "0.35" -> <<"0", ".", "3", "5">>
      [] tok = "0.65" -> <<"0", ".", "6", "5">>
      [] tok = "0.5"  -> <<"0", ".", "5">>
      [] tok = "0.2"  -> <<"0", ".", "2">>
      [] tok = "65"   -> <<"6", "5">>
      [] tok = "35"   -> <<"3", "5">>
      [] OTHER        -> <<tok>>

RECURSIVE JoinChars(_)
\* The characters of items.join(','), which is also String(array).
JoinChars(items) ==
    IF items = <<>> THEN <<>>
    ELSE IF Len(items) = 1 THEN TokenChars(items[1])
    ELSE TokenChars(items[1]) \o <<",">> \o JoinChars(Tail(items))

\* ------------------------------------------- loosely typed payload fields

\* A names/prices field of an upstream market object: missing, a native
\* list, a JSON-encoded string of a list, a comma-separated string, or a
\* string of white space.
Absent == [form |-> "absent", items |-> <<>>]
Blank == [form |-> "blank", items |-> <<>>]
NativeList(items) == [form |-> "list", items |-> items]
JsonString(items) == [form |-> "json", items |-> items]
CsvString(items) == [form |-> "csv", items |-> items]

Undefined == [ok |-> FALSE, arr |-> <<>>]
Defined(arr) == [ok |-> TRUE, arr |-> arr]

\* JS truthiness of a field value (an empty array is truthy).
Truthy(field) == field.form # "absent"

\* .filter(Boolean) on a list of strings.
FilterNonEmpty(items) == SelectSeq(items, LAMBDA t : t # "")

\* ------------------------------------------------ URL Resolver (current)

\* A submitted input: its text, whether new URL(...) accepts it (after the
\* https:// prefix is added to a text that does not start with http), the
\* non-empty path segments and the tid query parameter ("" when missing).
UrlInput(text, urlOk, pathParts, tid) ==
    [text |-> text, urlOk |-> urlOk, pathParts |-> pathParts, tid |-> tid]

Includes(parts, seg) == \E i \in 1..Len(parts) : parts[i] = seg
IndexOf(parts, seg) ==
    CHOOSE i \in 1..Len(parts) :
        /\ parts[i] = seg
        /\ \A j \in 1..(i - 1) : parts[j] # seg

\* pathParts[idx + 1] is truthy.
HasNext(parts, seg) ==
    /\ Includes(parts, seg)
    /\ IndexOf(parts, seg) + 1 <= Len(parts)

\* parsePolymarketUrl keeping the tid of a URL that has no path segment.
parsePolymarketUrl_KeepsTid(url) ==
    IF ~url.urlOk
    THEN [slug |-> url.text, id |-> "", type |-> "unknown"]
    ELSE IF HasNext(url.pathParts, "event")
    THEN [slug |-> url.pathParts[IndexOf(url.pathParts, "event") + 1],
          id |-> url.tid, type |-> "event"]
    ELSE IF HasNext(url.pathParts, "market")
    THEN [slug |-> url.pathParts[IndexOf(url.pathParts, "market") + 1],
          id |-> url.tid, type |-> "market"]
    ELSE IF Len(url.pathParts) > 0
    THEN [slug |-> url.pathParts[Len(url.pathParts)],
          id |-> url.tid, type |-> "unknown"]
    ELSE [slug |-> url.text, id |-> url.tid, type |-> "unknown"]

\* parsePolymarketUrl testing the market segment before the event segment.
parsePolymarketUrl_MarketFirst(url) ==
    IF ~url.urlOk
    THEN [slug |-> url.text, id |-> "", type |-> "unknown"]
    ELSE IF HasNext(url.pathParts, "market")
    THEN [slug |-> url.pathParts[IndexOf(url.pathParts, "market") + 1],
          id |-> url.tid, type |-> "market"]
    ELSE IF HasNext(url.pathParts, "event")
    THEN [slug |-> url.pathParts[IndexOf(url.pathParts, "event") + 1],
          id |-> url.tid, type |-> "event"]
    ELSE IF Len(url.pathParts) > 0
    THEN [slug |-> url.pathParts[Len(url.pathParts)],
          id |-> url.tid, type |-> "unknown"]
    ELSE [slug |-> url.text, id |-> "", type |-> "unknown"]

parsePolymarketUrl(url) ==
    IF ~url.urlOk
    THEN [slug |-> url.text, id |-> "", type |-> "unknown"]
    ELSE IF HasNext(url.pathParts, "event")
    THEN [slug |-> url.pathParts[IndexOf(url.pathParts, "event") + 1],
          id |-> url.tid, type |-> "event"]
    ELSE IF HasNext(url.pathParts, "market")
    THEN [slug |-> url.pathParts[IndexOf(url.pathParts, "market") + 1],
          id |-> url.tid, type |-> "market"]
    ELSE IF Len(url.pathParts) > 0
    THEN [slug |-> url.pathParts[Len(url.pathParts)],
          id |-> url.tid, type |-> "unknown"]
    ELSE [slug |-> url.text, id |-> "", type |-> "unknown"]

\* --------------------------------------------- Market Normalizer (current)

\* clampProbability without the percent rescaling.
clampProbability_NoRescale(value) ==
    IF ~IsFinite(value) THEN 0
    ELSE Max2(0, Min2(One, value))

clampProbability(value) ==
    IF ~IsFinite(value) THEN 0
    ELSE LET normalized == IF value > 10100 THEN value \div 100 ELSE value
         IN  Max2(0, Min2(One, normalized))

asArray(value) ==
    CASE value.form = "absent" -> Undefined
      [] value.form = "list"   -> Defined(value.items)
      [] value.form = "blank"  -> Undefined
      [] value.form = "json"   -> Defined(value.items)
      [] value.form = "csv"    ->
            \* JSON.parse succeeds on a lone JSON scalar: it is no array and
            \* the function falls out of the try block to return undefined.
            IF Len(value.items) = 1 /\ IsJsonScalar(value.items[1])
            THEN Undefined
            ELSE Defined(FilterNonEmpty(value.items))

parseStringArray(value) == asArray(value)

\* parseNumberArray without the NaN test.
parseNumberArray_KeepsNaN(value) ==
    LET arr == asArray(value) IN
    IF ~arr.ok THEN Undefined
    ELSE Defined([i \in 1..Len(arr.arr) |-> NumberOf(arr.arr[i])])

parseNumberArray(value) ==
    LET arr == asArray(value) IN
    IF ~arr.ok THEN Undefined
    ELSE LET numbers == [i \in 1..Len(arr.arr) |-> NumberOf(arr.arr[i])] IN
         IF \E i \in 1..Len(numbers) : IsNaN(numbers[i]) THEN Undefined
         ELSE Defined(numbers)

Outcome(name, p) == [name |-> name, probability |-> p, price |-> p]

RECURSIVE InsertDesc(_, _)
InsertDesc(sorted, o) ==
    IF sorted = <<>> THEN <<o>>
    ELSE IF Head(sorted).probability >= o.probability
    THEN <<Head(sorted)>> \o InsertDesc(Tail(sorted), o)
    ELSE <<o>> \o sorted

RECURSIVE SortDesc(_)
\* outcomes.sort((a, b) => b.probability - a.probability): stable.
SortDesc(outcomes) ==
    IF outcomes = <<>> THEN <<>>
    ELSE InsertDesc(SortDesc(SubSeq(outcomes, 1, Len(outcomes) - 1)),
                    outcomes[Len(outcomes)])

FiftyFifty == <<Outcome("Yes", 5000), Outcome("No", 5000)>>

\* a || b on two parse results (an empty array is truthy).
OrElse(a, b) == IF a.ok THEN a ELSE b

\* a ?? b on two fields.
Coalesce(a, b) == IF a.form # "absent" THEN a ELSE b

buildOutcomes(market) ==
    LET names ==
            OrElse(parseStringArray(market.outcomes),
            OrElse(parseStringArray(market.groupOutcomes),
            OrElse(parseStringArray(IF market.groupItemTitle # ""
                                    THEN NativeList(<<market.groupItemTitle>>)
                                    ELSE Absent),
                   parseStringArray(IF market.question # ""
                                    THEN NativeList(<<market.question>>)
                                    ELSE Absent))))
        priceSource ==
            Coalesce(market.outcomePrices,
                     Coalesce(market.prices, market.outcomeProbability))
        probabilities == parseNumberArray(priceSource)
    IN  IF /\ names.ok /\ probabilities.ok
           /\ Len(names.arr) # 0 /\ Len(probabilities.arr) # 0
        THEN LET usableLength == Min2(Len(names.arr), Len(probabilities.arr))
             IN  SortDesc([i \in 1..usableLength |->
                     Outcome(names.arr[i],
                             clampProbability(probabilities.arr[i]))])
        ELSE FiftyFifty

\* Number(market.volumeNum ?? market.volume ?? 0)
VolumeOf(market) ==
    IF market.volumeNum # "" THEN NumberOf(market.volumeNum)
    ELSE IF market.volume # "" THEN NumberOf(market.volume)
    ELSE 0

\* JS > on two numbers: false when either side is NaN.
Greater(a, b) == ~IsNaN(a) /\ ~IsNaN(b) /\ a > b

RECURSIVE ReduceMaxVolume(_, _)
ReduceMaxVolume(prev, rest) ==
    IF rest = <<>> THEN prev
    ELSE ReduceMaxVolume(
            IF Greater(VolumeOf(Head(rest)), VolumeOf(prev))
            THEN Head(rest) ELSE prev,
            Tail(rest))

NoMarketSelected == [type |-> "none"]

selectMarket(markets, targetId) ==
    IF markets = <<>> THEN NoMarketSelected
    ELSE IF targetId # "" /\ \E i \in 1..Len(markets) : markets[i].id = targetId
    THEN markets[CHOOSE i \in 1..Len(markets) :
                    /\ markets[i].id = targetId
                    /\ \A j \in 1..(i - 1) : markets[j].id # targetId]
    ELSE IF \E i \in 1..Len(markets) : markets[i].active = "true"
    THEN markets[CHOOSE i \in 1..Len(markets) :
                    /\ markets[i].active = "true"
                    /\ \A j \in 1..(i - 1) : markets[j].active # "true"]
    ELSE ReduceMaxVolume(markets[1], markets)

\* The result of a normaliser call: a Market, or an exception.
Threw == [threw |-> TRUE]
Built(market) == [threw |-> FALSE, market |-> market]

Market(id, question, outcomes, url, volumeNum, active) ==
    [id |-> id, question |-> question, outcomes |-> outcomes, url |-> url,
     volumeNum |-> volumeNum, active |-> active]

\* a || b on two strings.
OrText(a, b) == IF a # "" THEN a ELSE b

transformEventData(event, targetId) ==
    IF event.type = "null" THEN Threw
    ELSE LET markets == IF event.markets.form = "list"
                        THEN event.markets.items ELSE <<>>
             selectedMarket == selectMarket(markets, targetId)
         IN  IF selectedMarket = NoMarketSelected THEN Threw
             ELSE Built(Market(
                    selectedMarket.id,
                    <<OrText(event.title, selectedMarket.question)>>,
                    buildOutcomes(selectedMarket),
                    <<"https://polymarket.com/event/", event.slug>>,
                    VolumeOf(selectedMarket),
                    IF selectedMarket.active # ""
                    THEN selectedMarket.active = "true"
                    ELSE event.active = "true"))

transformMarketData(market) ==
    IF market.type = "null" THEN Threw
    ELSE Built(Market(
            market.id,
            <<OrText(market.question, market.title)>>,
            buildOutcomes(market),
            <<"https://polymarket.com/market/", market.slug>>,
            VolumeOf(market),
            market.active = "true"))

\* ------------------------------------------------ synthetic placeholder

\* slug.includes(word) and slug.replace(/-/g, ' ') for the slugs drawn.
SlugIncludes(slug, word) ==
    CASE slug = "btc-100k" -> word = "btc"
      [] slug = "bitcoin-price-above-100k-2024" -> word = "bitcoin"
      [] slug = "election-2024" -> word = "election"
      [] slug = "trump-bitcoin-reserve" -> word \in {"trump", "bitcoin"}
      [] OTHER -> FALSE

Dehyphen(slug) ==
    CASE slug = "btc-100k" -> "btc 100k"
      [] slug = "bitcoin-price-above-100k-2024" -> "bitcoin price above 100k 2024"
      [] slug = "election-2024" -> "election 2024"
      [] slug = "trump-bitcoin-reserve" -> "trump bitcoin reserve"
      [] slug = "fed-cut" -> "fed cut"
      [] OTHER -> slug

\* The values Math.random() is drawn from.
Randoms == {"0.17", "0.83"}
\* MockId without the "mock-" prefix.
MockId_NoPrefix(r) == r

\* "mock-" + Math.random()
MockId(r) == IF r = "0.17" THEN "mock-0.17" ELSE "mock-0.83"
StartsWithMock(id) == id \in {"mock-0.17", "mock-0.83"}

getMockData(url, slug, r) ==
    LET isBtc == SlugIncludes(slug, "btc") \/ SlugIncludes(slug, "bitcoin")
        isElection == SlugIncludes(slug, "election") \/ SlugIncludes(slug, "trump")
        question ==
            IF isBtc THEN <<"Will Bitcoin hit $100k in 2024?">>
            ELSE IF isElection THEN <<"Presidential Election Winner 2024">>
            ELSE <<"Prediction Market: ", Dehyphen(slug)>>
        outcomes ==
            IF isElection
            THEN <<Outcome("Trump", 5200), Outcome("Harris", 4700),
                   Outcome("Other", 100)>>
            ELSE <<Outcome("Yes", 6500), Outcome("No", 3500)>>
    IN  Market(MockId(r), question, outcomes, <<url.text>>, 120 * One, TRUE)

\* ------------------------------------ Market Normalizer (earlier draft)

\* JSON.parse(field) as the earlier draft calls it on a names or prices
\* field: an array, a scalar, or a SyntaxError.  A native list is first
\* coerced to the string of its items joined by commas.
ParsedArray(items) == [kind |-> "array", items |-> items]
ParsedScalar(tok) == [kind |-> "scalar", items |-> <<tok>>]
ParseThrows == [kind |-> "throws", items |-> <<>>]
RawString(chars) == [kind |-> "string", items |-> chars]

legacyJsonParse(field) ==
    CASE field.form = "json" -> ParsedArray(field.items)
      [] field.form \in {"csv", "list"} ->
            IF Len(field.items) = 1 /\ IsJsonScalar(field.items[1])
            THEN ParsedScalar(field.items[1])
            ELSE ParseThrows
      [] OTHER -> ParseThrows

\* The field itself, as the catch branch keeps it.
legacyRaw(field) ==
    CASE field.form = "list"  -> ParsedArray(field.items)
      [] field.form = "blank" -> RawString(<<" ", " ">>)
      [] OTHER                -> RawString(JoinChars(field.items))

\* prices[idx] (0-based idx = i - 1), then Number(...) || 0.
legacyPriceAt(prices, i) ==
    LET n == IF prices.kind \in {"array", "string"} /\ i <= Len(prices.items)
             THEN NumberOf(prices.items[i])
             ELSE NaN
    IN  IF IsNaN(n) THEN 0 ELSE n

\* names.forEach(...) followed by the sort; names must be an array.
legacyOutcomes(names, prices) ==
    SortDesc([i \in 1..Len(names.items) |->
                Outcome(names.items[i], legacyPriceAt(prices, i))])

\* Number(market.volume || 0)
legacyVolumeOf(market) ==
    IF market.volume # "" THEN NumberOf(market.volume) ELSE 0

legacyTransformMarketData(market) ==
    IF market.type = "null" THEN Threw
    ELSE LET parsedNames == legacyJsonParse(market.outcomes)
             names == IF parsedNames.kind = "throws"
                      THEN legacyRaw(market.outcomes) ELSE parsedNames
             parsedPrices == legacyJsonParse(market.outcomePrices)
             prices == IF parsedPrices.kind = "throws"
                       THEN legacyRaw(market.outcomePrices) ELSE parsedPrices
             paired == Truthy(market.outcomes) /\ Truthy(market.outcomePrices)
         IN  IF paired /\ names.kind # "array" THEN Threw
             ELSE IF /\ paired /\ Len(names.items) > 0
                     /\ prices = ParsedScalar("null") THEN Threw
             ELSE Built(Market(
                    market.id,
                    <<market.question>>,
                    IF paired THEN legacyOutcomes(names, prices) ELSE FiftyFifty,
                    <<"https://polymarket.com/market/", market.slug>>,
                    legacyVolumeOf(market),
                    market.active = "true"))

\* markets.find((m) => m.id === targetId) || markets[0]
legacySelect(markets, targetId) ==
    IF markets = <<>> THEN NoMarketSelected
    ELSE IF \E i \in 1..Len(markets) : markets[i].id = targetId
    THEN markets[CHOOSE i \in 1..Len(markets) :
                    /\ markets[i].id = targetId
                    /\ \A j \in 1..(i - 1) : markets[j].id # targetId]
    ELSE markets[1]

legacyTransformEventData(event, targetId) ==
    IF event.type = "null" THEN Threw
    ELSE LET markets == IF event.markets.form = "list"
                        THEN event.markets.items ELSE <<>>
             selectedMarket == legacySelect(markets, targetId)
         IN  IF selectedMarket = NoMarketSelected THEN Threw
             ELSE LET names == legacyJsonParse(selectedMarket.outcomes)
                      prices == legacyJsonParse(selectedMarket.outcomePrices)
                      paired == /\ Truthy(selectedMarket.outcomes)
                                /\ Truthy(selectedMarket.outcomePrices)
                  IN  IF paired /\ (names.kind # "array" \/ prices.kind = "throws")
                      THEN Threw
                      ELSE IF /\ paired /\ Len(names.items) > 0
                              /\ prices = ParsedScalar("null") THEN Threw
                      ELSE Built(Market(
                            selectedMarket.id,
                            <<event.title>>,
                            IF paired THEN legacyOutcomes(names, prices)
                            ELSE FiftyFifty,
                            <<"https://polymarket.com/event/", event.slug>>,
                            legacyVolumeOf(selectedMarket),
                            selectedMarket.active = "true"))

\* --------------------------------------------------- upstream payloads

MarketPayload(id, names, prices, active, volume) ==
    [type |-> "market", id |-> id, question |-> "Will it happen?",
     title |-> "", slug |-> "m-slug", outcomes |-> names,
     groupOutcomes |-> Absent, groupItemTitle |-> "",
     outcomePrices |-> prices, prices |-> Absent,
     outcomeProbability |-> Absent, active |-> active,
     volumeNum |-> "", volume |-> volume]

NullItem == [type |-> "null"]

EventPayload(title, markets) ==
    [type |-> "event", title |-> title, slug |-> "e-slug",
     markets |-> markets, active |-> "true"]

NameFields ==
    {Absent, NativeList(<<"Yes", "No">>), JsonString(<<"Yes", "No">>),
     CsvString(<<"Yes", "No">>), JsonString(<<>>),
     JsonString(<<"Up", "Flat", "Down">>)}

PriceFields ==
    {Absent, JsonString(<<"0.65", "0.35">>), NativeList(<<"0.35", "0.65">>),
     JsonString(<<"35", "65">>), CsvString(<<"0.35", "0.65">>),
     JsonString(<<"abc", "0.5">>), JsonString(<<"1.5", "-0.5">>),
     NativeList(<<"0.5">>), JsonString(<<"Infinity", "0.2">>),
     CsvString(<<"0.5">>), Blank}

Markets ==
    {MarketPayload("7", n, p, "true", "500") :
        n \in NameFields, p \in PriceFields}
    \cup {MarketPayload("8", JsonString(<<"Yes", "No">>),
                        JsonString(<<"0.35", "0.65">>), "false", "")}

SubMarkets ==
    {MarketPayload(id, JsonString(<<"Yes", "No">>), p, a, v) :
        id \in {"7", "8"},
        p \in {JsonString(<<"0.35", "0.65">>), JsonString(<<"35", "65">>)},
        a \in {"true", "false"}, v \in {"10", "500"}}

RECURSIVE SeqsUpTo(_, _)
SeqsUpTo(S, n) ==
    IF n = 0 THEN {<<>>}
    ELSE LET shorter == SeqsUpTo(S, n - 1)
         IN  shorter \cup {Append(q, x) : q \in shorter, x \in S}

Events ==
    {EventPayload(t, m) :
        t \in {"Who wins?", ""},
        m \in {Absent} \cup {NativeList(q) : q \in SeqsUpTo(SubMarkets, MaxSubMarkets)}}

\* A response body once response.json() has parsed it.
JsonNull == [kind |-> "null", items |-> <<>>]
JsonList(items) == [kind |-> "list", items |-> items]
JsonObject(item) == [kind |-> "object", items |-> <<item>>]

\* What each endpoint may answer with a 2xx status: a list for the slug and
\* search queries, one market object for the query by id, or null.
BodiesOf(k) ==
    CASE k = 1 -> {JsonNull, JsonList(<<>>), JsonList(<<NullItem>>)}
                    \cup {JsonList(<<e>>) : e \in Events}
      [] k = 3 -> {JsonNull} \cup {JsonObject(m) : m \in Markets}
      [] OTHER -> {JsonNull, JsonList(<<>>), JsonList(<<NullItem>>)}
                    \cup {JsonList(<<m>>) : m \in Markets}

\* The URLs of the resolver's domain: every path of up to MaxSegments
\* segments over Segments, with and without a tid parameter (a missing and
\* an empty tid both read as ""), and a text new URL() rejects.
MaxSegments == 3
Segments == {"event", "market", "btc-100k"}

\* The inputs a user submits.
Inputs ==
    {UrlInput("", FALSE, <<>>, ""),
     UrlInput("polymarket.com/event/btc-100k?tid=7", TRUE,
              <<"event", "btc-100k">>, "7"),
     UrlInput("https://polymarket.com/event/election-2024", TRUE,
              <<"event", "election-2024">>, ""),
     UrlInput("polymarket.com/market/fed-cut?tid=8", TRUE,
              <<"market", "fed-cut">>, "8"),
     UrlInput("polymarket.com/event/trump-bitcoin-reserve", TRUE,
              <<"event", "trump-bitcoin-reserve">>, ""),
     UrlInput("bitcoin-price-above-100k-2024", TRUE, <<>>, ""),
     UrlInput("polymarket.com/event", TRUE, <<"event">>, ""),
     UrlInput("not a url", FALSE, <<>>, "")}

\* The numbers clampProbability is applied to: -MaxPercent/100 to
\* MaxPercent/100 in steps of 0.01, the neighbours of the 1.01 threshold,
\* percent-scale values and the three non-finite numbers.
MaxPercent == 200
Probabilities ==
    {n * 100 : n \in (0 - MaxPercent)..MaxPercent}
    \cup {10099, 10101, 35 * One, 65 * One, 100 * One, 101 * One, 150 * One}
    \cup {NaN, PosInf, NegInf}

\* The sub-market lists selectMarket is applied to: up to MaxSelect
\* sub-markets, each with an id, an active flag and a volume (10, 500 or
\* none).
MaxSelect == 3
\* Requests (getMarketData and analyzeMarket calls) the App begins.
MaxRequests == 4
SelectableMarkets ==
    {MarketPayload(id, JsonString(<<"Yes", "No">>),
                   JsonString(<<"0.35", "0.65">>), a, v) :
        id \in {"7", "8"}, a \in {"true", "false"}, v \in {"", "10", "500"}}

SelectArgs ==
    {[markets |-> ms, targetId |-> tid] :
        ms \in SeqsUpTo(SelectableMarkets, MaxSelect), tid \in {"", "8"}}

\* The market payloads buildOutcomes is applied to: every names field with
\* every prices field, with and without a question, a group item title, a
\* groupOutcomes field and a prices field.
BuildMarkets ==
    {[MarketPayload("7", n, p, "true", "500")
        EXCEPT !.question = q, !.groupItemTitle = g,
               !.groupOutcomes = go, !.prices = pr] :
        n \in NameFields \cup {Blank}, p \in PriceFields,
        q \in {"Will it happen?", ""}, g \in {"", "Trump"},
        go \in {Absent, JsonString(<<"Up", "Down">>)},
        pr \in {Absent, JsonString(<<"0.2", "0.5">>)}}

RECURSIVE PathsUpTo(_)
PathsUpTo(n) ==
    IF n = 0 THEN {<<>>}
    ELSE LET shorter == PathsUpTo(n - 1)
         IN  shorter \cup {Append(q, x) : q \in shorter, x \in Segments}

UrlInputs ==
    {UrlInput("polymarket.com/...", TRUE, parts, tid) :
        parts \in PathsUpTo(MaxSegments), tid \in {"", "7"}}
    \cup {UrlInput("not a url", FALSE, <<>>, "")}

\* ------------------------------------------------------------- state

VARIABLES
    draft,        \* which draft of polymarketService the build bundles
    input,        \* the text handed to getMarketData
    parsed,       \* parsePolymarketUrl(input)
    gpc,          \* getMarketData: "idle", "running", "resolved", "rejected"
    strat,        \* the strategy whose request is awaited (1..4), or 0
    fphase,       \* fetchWithTimeout: "none", "waiting", "reading"
    timer,        \* its setTimeout handle: "none" or "armed"
    inflight,     \* strategies whose upstream request is outstanding
    issued,       \* strategies in the order their requests were issued
    stratResult,  \* per strategy: "notrun", "failed", "empty", "threw", "ok"
    fetched,      \* the Market getMarketData resolved with, or Null
    producedBy,   \* the strategy that built it, 0 for the placeholder
    isFetching, isAnalyzing, error, marketData, analysis, mode,  \* App state
    aphase,       \* the analysis request: where it is
    areq,         \* its body {market, mode}
    aconfig,      \* the provider configuration the proxy built
    aresp,        \* the proxy's response {status, message, body}
    hasKey,       \* whether GEMINI_API_KEY is set on the server
    pout,         \* what the provider call of this request produced
    alog,         \* how the last settled analysis request ended
    call,         \* a helper function applied on its own: name, argument, result
    fetches,      \* App: the getMarketData calls handleFetch is awaiting
    analyses,     \* App: the analyzeMarket calls handleAnalyze is awaiting
    ulog          \* App: last submitted text, requests begun, last analysis end

fetchVars ==
    <<draft, input, parsed, gpc, strat, fphase, timer, inflight, issued,
      stratResult, fetched, producedBy>>
uiVars == <<isFetching, isAnalyzing, error, marketData, analysis, mode>>
analysisVars == <<aphase, areq, aconfig, aresp, hasKey, pout, alog>>
appVars == <<fetches, analyses, ulog>>
vars == <<fetchVars, uiVars, analysisVars, call, appVars>>

Null == [null |-> TRUE]
NoCall == [fn |-> "none"]
NoLog == [submitted |-> "", requests |-> 0, settled |-> "none"]
NoError == ""
FetchFailedMsg == "Failed to fetch market data. Please check the URL and try again."
AnalysisFailedMsg == "Analysis failed. Please try again."

Strategies == 1..4
Drafts == {"current", "legacy"}

\* ------------------------------------------------- getMarketData

\* The normaliser a strategy hands its payload to, in the bundled draft.
Normalise(d, k, item, targetId) ==
    IF k = 1
    THEN IF d = "legacy" THEN legacyTransformEventData(item, targetId)
         ELSE transformEventData(item, targetId)
    ELSE IF d = "legacy" THEN legacyTransformMarketData(item)
         ELSE transformMarketData(item)

Failure == [kind |-> "failure", items |-> <<>>]

\* The test each strategy applies to the data fetchWithTimeout returned:
\* data && data.length > 0 for the list queries, plain truthiness by id.
Usable(k, data) ==
    IF k = 3 THEN data.kind # "null"
    ELSE data.kind = "list" /\ Len(data.items) > 0

\* One strategy's try block on the response it awaited.
TryStrategy(d, k, data, targetId) ==
    IF data = Failure THEN [status |-> "failed", market |-> Null]
    ELSE IF ~Usable(k, data) THEN [status |-> "empty", market |-> Null]
    ELSE LET r == Normalise(d, k, data.items[1], targetId)
         IN  IF r.threw THEN [status |-> "threw", market |-> Null]
             ELSE [status |-> "ok", market |-> r.market]

\* AfterTry with the normaliser called outside the try block: its
\* exception leaves getMarketData.
AfterTry_ThrowEscapes(status) ==
    CASE status = "ok"     -> "return"
      [] status = "failed" -> "next"
      [] status = "threw"  -> "reject"
      [] status = "empty"  -> "next"

\* AfterTry with the return statement missing: the Market is built and
\* dropped.
AfterTry_ResultDropped(status) ==
    CASE status = "ok"     -> "next"
      [] status = "failed" -> "next"
      [] status = "threw"  -> "next"
      [] status = "empty"  -> "next"

\* What follows a try block: its return statement ends the call, its catch
\* clause and its failed test both fall through to the next strategy.
AfterTry(status) ==
    CASE status = "ok"     -> "return"
      [] status = "failed" -> "next"
      [] status = "threw"  -> "next"
      [] status = "empty"  -> "next"

\* NextStrategy without the if (id) guard of the query by id.
NextStrategy_IdNotChecked(k, id) ==
    CASE k = 1 -> 2
      [] k = 2 -> 3
      [] k = 3 -> 4
      [] k = 4 -> 0

\* The strategy tried after k, 0 when none is left (the placeholder).
NextStrategy(k, id) ==
    CASE k = 1 -> 2
      [] k = 2 -> IF id # "" THEN 3 ELSE 4
      [] k = 3 -> 4
      [] k = 4 -> 0

\* fetchWithTimeout up to its first await: the timer is armed and the
\* request is sent.
\* clearTimeout that leaves the timer as it was.
clearTimeout_Skipped(t) == t

\* clearTimeout(id): the timer, armed or not, is no longer pending.
clearTimeout(t) == "none"

IssueRequest(k) ==
    /\ strat' = k
    /\ fphase' = "waiting"
    /\ timer' = "armed"
    /\ inflight' = (inflight \ {strat}) \cup {k}
    /\ issued' = Append(issued, k)

\* getMarketData resumed with the outcome of the request it awaited.
Resume(data) ==
    LET t == TryStrategy(draft, strat, data, parsed.id)
        n == NextStrategy(strat, parsed.id)
    IN  /\ stratResult' = [stratResult EXCEPT ![strat] = t.status]
        /\ CASE AfterTry(t.status) = "return" ->
                  /\ gpc' = "resolved"
                  /\ fetched' = t.market
                  /\ producedBy' = strat
                  /\ strat' = 0 /\ fphase' = "none"
                  /\ timer' = clearTimeout(timer)
                  /\ inflight' = inflight \ {strat}
                  /\ UNCHANGED issued
             [] AfterTry(t.status) = "next" /\ n # 0 ->
                  /\ IssueRequest(n)
                  /\ UNCHANGED <<gpc, fetched, producedBy>>
             [] AfterTry(t.status) = "next" /\ n = 0 ->
                  /\ \E r \in Randoms :
                        fetched' = getMockData(input, parsed.slug, r)
                  /\ gpc' = "resolved"
                  /\ producedBy' = 0
                  /\ strat' = 0 /\ fphase' = "none"
                  /\ timer' = clearTimeout(timer)
                  /\ inflight' = inflight \ {strat}
                  /\ UNCHANGED issued
             [] OTHER ->
                  /\ gpc' = "rejected"
                  /\ strat' = 0 /\ fphase' = "none"
                  /\ timer' = clearTimeout(timer)
                  /\ inflight' = inflight \ {strat}
                  /\ UNCHANGED <<issued, fetched, producedBy>>
        /\ UNCHANGED <<appVars, call, draft, input, parsed, uiVars, analysisVars>>

\* ------------------------------------------------- fetchWithTimeout

\* Whether the timer is still armed once the response headers are in and
\* response.json() is awaited: clearTimeout(id) runs before that await.
TimerWhileReading == "none"

\* fetch() rejects: the catch clause clears the timer and rethrows.
NetworkError ==
    /\ gpc = "running" /\ fphase = "waiting"
    /\ Resume(Failure)

\* The timer fires: controller.abort() rejects the pending fetch.
TimerFires ==
    /\ gpc = "running" /\ timer = "armed"
    /\ Resume(Failure)

\* The response arrives with a non-2xx status: Error("HTTP ...") is thrown.
ResponseNotOk ==
    /\ gpc = "running" /\ fphase = "waiting"
    /\ Resume(Failure)

\* The response arrives with a 2xx status: the body is awaited.
ResponseOk ==
    /\ gpc = "running" /\ fphase = "waiting"
    /\ fphase' = "reading"
    /\ timer' = TimerWhileReading
    /\ UNCHANGED <<appVars, call, draft, input, parsed, gpc, strat, inflight, issued,
                   stratResult, fetched, producedBy, uiVars, analysisVars>>

\* response.json() resolves with the parsed body.
BodyArrives ==
    /\ gpc = "running" /\ fphase = "reading"
    /\ \E data \in BodiesOf(strat) : Resume(data)

\* response.json() rejects (the body is not JSON, or the connection drops).
BodyFails ==
    /\ gpc = "running" /\ fphase = "reading"
    /\ Resume(Failure)


\* ------------------------------------------------- model output (JSON)

\* A JSON value of one field of the model's object; undefined is JMissing.
JMissing == [t |-> "missing", v |-> <<>>]
JNullV == [t |-> "null", v |-> <<>>]
JStr(s) == [t |-> "string", v |-> <<s>>]
JNum(n) == [t |-> "number", v |-> <<n>>]
JArr(items) == [t |-> "array", v |-> items]

Fields(summary, recommendation, confidenceScore, reasoning) ==
    [summary |-> summary, recommendation |-> recommendation,
     confidenceScore |-> confidenceScore, reasoning |-> reasoning]

NoFields == Fields(JMissing, JMissing, JMissing, JMissing)

\* The JSON text the model wrote: an object, another JSON value, text that
\* is no JSON ("invalid" holds no brace, "broken" does), or nothing.
Body(kind, fields) == [kind |-> kind, fields |-> fields]

\* The whole text: prose before, an opening fence and its language tag,
\* the body, a closing fence, prose after.  "~~~" stands for the fence of
\* three backquotes.
ModelText(lead, fence, body, close, trail) ==
    [lead |-> lead, fence |-> fence, body |-> body, close |-> close,
     trail |-> trail]

GoodFields == Fields(JStr("x"), JStr("SELL"), JNum("80"), JArr(<<"a", "b">>))

ObjectFields ==
    {Fields(JStr("x"), r, c, JArr(<<"a", "b">>)) :
        r \in {JStr("SELL"), JStr("buy"), JStr("MAYBE"), JMissing},
        c \in {JNum("80"), JNum("150"), JNum("-5"), JStr("abc"), JMissing}}
    \cup {Fields(JMissing, JStr("SELL"), JNum("80"), JArr(<<"a", "b">>)),
          Fields(JStr("x"), JStr("SELL"), JNum("80"), JMissing),
          Fields(JStr("x"), JStr("SELL"), JNum("80"), JStr("because")),
          Fields(JNullV, JStr("SELL"), JNum("80"), JArr(<<"a", "b">>))}

Bodies ==
    {Body("object", f) : f \in ObjectFields}
    \cup {Body("null", NoFields), Body("number", NoFields),
          Body("array", GoodFields),
          Body("invalid", NoFields), Body("broken", NoFields),
          Body("none", NoFields)}

ModelTexts ==
    {ModelText("", "none", b, FALSE, "") : b \in Bodies}
    \cup {ModelText(l, f, b, c, t) :
            l \in {"", "prose"}, f \in {"none", "bare", "json", "js"},
            b \in {Body("object", GoodFields), Body("number", NoFields),
                   Body("none", NoFields)},
            c \in BOOLEAN, t \in {"", "prose"}}

\* A citation chunk of the provider's grounding metadata.
Chunk(uri, title) == [uri |-> uri, title |-> title]

ChunkLists ==
    {<<>>,
     <<Chunk("", "T3")>>,
     <<Chunk("u2", "T2"), Chunk("u1", "T1"), Chunk("u2", "T2b")>>,
     <<Chunk("u1", ""), Chunk("u2", "T2"), Chunk("u1", "T1")>>,
     <<Chunk("u1", "T1"), Chunk("u1", "T1b"), Chunk("u2", ""), Chunk("", "T3")>>}

\* The provider's response: its text ("" when response.text is falsy, and
\* then whether candidates[0].content is there), its citation chunks
\* (hasChunks tells whether groundingChunks is defined).
ProviderResponse(hasText, text, hasContent, hasChunks, chunks) ==
    [hasText |-> hasText, text |-> text, hasContent |-> hasContent,
     hasChunks |-> hasChunks, chunks |-> chunks]

NoText == ModelText("", "none", Body("none", NoFields), FALSE, "")

GoodText == ModelText("", "none", Body("object", GoodFields), FALSE, "")

ProviderResponses ==
    {ProviderResponse(TRUE, t, TRUE, FALSE, <<>>) : t \in ModelTexts}
    \cup {ProviderResponse(TRUE, GoodText, TRUE, TRUE, ch) : ch \in ChunkLists}
    \cup {ProviderResponse(FALSE, NoText, c, FALSE, <<>>) : c \in BOOLEAN}

\* ------------------------------------------------- proxy: helpers

\* The sanitised text: what is left before the body, the body, what is
\* left after it.
Sanitised(pre, body, post) == [pre |-> pre, body |-> body, post |-> post]

sanitizeModelText(text) ==
    LET opening == IF text.fence = "none" THEN <<>>
                   ELSE IF text.fence = "bare" THEN <<"~~~">>
                   ELSE <<"~~~", text.fence>>
        closing == IF text.fence # "none" /\ text.close THEN <<"~~~">> ELSE <<>>
        \* text.trim(): white space (" ") at either end is dropped
        before == (IF text.lead \in {"", " "} THEN <<>> ELSE <<text.lead>>)
                    \o opening
        after == closing
                    \o (IF text.trail \in {"", " "} THEN <<>> ELSE <<text.trail>>)
        startsWithFence == before # <<>> /\ before[1] = "~~~"
    IN  IF ~startsWithFence THEN Sanitised(before, text.body, after)
        ELSE LET \* the first replace removes the fence and a json tag after it
                 pre == IF Len(before) = 2 /\ before[2] \in {"json", "JSON"}
                        THEN <<>> ELSE Tail(before)
                 \* the second replace removes a fence that ends the text
                 post == IF after # <<>> /\ after[Len(after)] = "~~~"
                         THEN SubSeq(after, 1, Len(after) - 1) ELSE after
             IN  Sanitised(pre, text.body, post)

IsEmptyText(san) ==
    san.pre = <<>> /\ san.post = <<>> /\ san.body.kind = "none"

\* The value JSON.parse produced, or the MODEL_OUTPUT_INVALID_JSON error.
ParsedValue(kind, fields) == [ok |-> TRUE, kind |-> kind, fields |-> fields]
InvalidJson == [ok |-> FALSE, kind |-> "error", fields |-> NoFields]

parseModelJson(san) ==
    IF /\ san.pre = <<>> /\ san.post = <<>>
       /\ san.body.kind \in {"object", "null", "number", "array"}
    THEN ParsedValue(san.body.kind,
                     IF san.body.kind = "object" THEN san.body.fields
                     ELSE NoFields)
    \* text.slice(indexOf('{'), lastIndexOf('}') + 1): the object inside
    ELSE IF san.body.kind \in {"object", "array"}
    THEN ParsedValue("object", san.body.fields)
    ELSE InvalidJson

\* response.text, else the parts of candidates[0].content joined; calling
\* .map on the content object throws.
getCandidateText(response) ==
    IF response.hasText THEN [threw |-> FALSE, text |-> response.text]
    ELSE IF response.hasContent THEN [threw |-> TRUE, text |-> NoText]
    ELSE [threw |-> FALSE, text |-> NoText]

\* CollectSources that never consults the set of urls already seen.
RECURSIVE CollectSources_NoSeen(_, _, _)
CollectSources_NoSeen(chunks, seen, sources) ==
    IF chunks = <<>> THEN sources
    ELSE LET url == Head(chunks).uri
             title == IF Head(chunks).title # "" THEN Head(chunks).title ELSE url
         IN  IF url # "" /\ title # ""
             THEN CollectSources_NoSeen(Tail(chunks), seen,
                                 Append(sources, [title |-> title, url |-> url]))
             ELSE CollectSources_NoSeen(Tail(chunks), seen, sources)

RECURSIVE CollectSources(_, _, _)
CollectSources(chunks, seen, sources) ==
    IF chunks = <<>> THEN sources
    ELSE LET url == Head(chunks).uri
             title == IF Head(chunks).title # "" THEN Head(chunks).title ELSE url
         IN  IF url # "" /\ title # "" /\ url \notin seen
             THEN CollectSources(Tail(chunks), seen \cup {url},
                                 Append(sources, [title |-> title, url |-> url]))
             ELSE CollectSources(Tail(chunks), seen, sources)

extractSources(response) ==
    IF ~response.hasChunks THEN <<>>
    ELSE CollectSources(response.chunks, {}, <<>>)

\* The direct draft's sources: the chunks holding both a uri and a title,
\* then filter(findIndex by url = own index).
directSources(response) ==
    LET kept == SelectSeq(response.chunks,
                          LAMBDA c : c.uri # "" /\ c.title # "")
        all == [i \in 1..Len(kept) |->
                    [title |-> kept[i].title, url |-> kept[i].uri]]
        first(i) == \A j \in 1..(i - 1) : all[j].url # all[i].url
        keep == {i \in 1..Len(all) : first(i)}
        RECURSIVE Pick(_)
        Pick(i) == IF i > Len(all) THEN <<>>
                   ELSE IF i \in keep THEN <<all[i]>> \o Pick(i + 1)
                   ELSE Pick(i + 1)
    IN  IF ~response.hasChunks THEN <<>> ELSE Pick(1)

\* sources.length > 0 ? sources : undefined, and JSON.stringify leaving an
\* undefined field out of the body.
SourcesField(sources) ==
    IF Len(sources) > 0 THEN [present |-> TRUE, items |-> sources]
    ELSE [present |-> FALSE, items |-> <<>>]

\* ------------------------------------------------- proxy: POST /api/analyze

Reply(status, message, body) ==
    [status |-> status, message |-> message, body |-> body]

NoKeyReply == Reply(500, "Gemini API key is not configured on the server.", Null)
BadRequestReply ==
    Reply(400, "Market payload (with outcomes) and analysis mode are required.", Null)
EmptyReply == Reply(502, "AI response was empty.", Null)
InvalidJsonReply == Reply(502, "AI response was not valid JSON.", Null)
FailedReply == Reply(500, "Failed to analyze market.", Null)

\* The Recommendation body res.json() sends: the four fields as parsed,
\* the sources when there are any (a missing field is left out).
Recommendation(fields, sources) ==
    [summary |-> fields.summary, recommendation |-> fields.recommendation,
     confidenceScore |-> fields.confidenceScore,
     reasoning |-> fields.reasoning, sources |-> sources]

\* ProviderConfig that always asks for the response schema.
ProviderConfig_SchemaAlways(isDeep) ==
    [thinkingBudget |-> IF isDeep THEN 16384 ELSE 2048,
     googleSearch |-> isDeep,
     responseMimeType |-> "application/json",
     responseSchema |-> TRUE]

ProviderConfig(isDeep) ==
    [thinkingBudget |-> IF isDeep THEN 16384 ELSE 2048,
     googleSearch |-> isDeep,
     responseMimeType |-> IF isDeep THEN "" ELSE "application/json",
     responseSchema |-> ~isDeep]

\* The handler's try block once generateContent has returned.
ReplyToResponse(response) ==
    LET candidate == getCandidateText(response)
        rawText == sanitizeModelText(candidate.text)
        parsed_ == parseModelJson(rawText)
    IN  IF candidate.threw THEN FailedReply
        ELSE IF IsEmptyText(rawText) THEN EmptyReply
        ELSE IF ~parsed_.ok THEN InvalidJsonReply
        \* parsed.summary on null throws a TypeError
        ELSE IF parsed_.kind = "null" THEN FailedReply
        ELSE Reply(200, "", Recommendation(parsed_.fields,
                                SourcesField(extractSources(response))))

\* ReplyToThrow answering with a canned Recommendation instead of an error.
ReplyToThrow_Placeholder ==
    Reply(200, "",
          Recommendation(Fields(JStr("Analysis unavailable"), JStr("HOLD"),
                                JNum("0"), JArr(<<"No reasoning returned">>)),
                         SourcesField(<<>>)))

\* The handler's catch clause for an error generateContent threw.
ReplyToThrow == FailedReply

\* ------------------------------- Result Normalizer, the two drafts

\* What a caller gets for a model text: the Recommendation's fields, or an
\* error and its message.
Normalized(fields) == [ok |-> TRUE, fields |-> fields, message |-> ""]
NotNormalized(message) == [ok |-> FALSE, fields |-> NoFields, message |-> message]

\* The proxy: the try block of POST /api/analyze on a response that holds
\* the text.
proxyNormalize(text) ==
    LET reply == ReplyToResponse(ProviderResponse(TRUE, text, TRUE, FALSE, <<>>))
    IN  IF reply.status = 200
        THEN Normalized(Fields(reply.body.summary, reply.body.recommendation,
                               reply.body.confidenceScore, reply.body.reasoning))
        ELSE NotNormalized(reply.message)

\* The direct draft of analyzeMarket: no trim, the fence removed when the
\* text starts with it (a tag only when it is json, in lower case), then
\* JSON.parse on what is left, which accepts white space around the value
\* and nothing else.
directNormalize(text) ==
    LET opening == IF text.fence = "none" THEN <<>>
                   ELSE IF text.fence = "bare" THEN <<"~~~">>
                   ELSE <<"~~~", text.fence>>
        closing == IF text.fence # "none" /\ text.close THEN <<"~~~">> ELSE <<>>
        before == (IF text.lead = "" THEN <<>> ELSE <<text.lead>>) \o opening
        after == closing \o (IF text.trail = "" THEN <<>> ELSE <<text.trail>>)
        startsWithFence == before # <<>> /\ before[1] = "~~~"
        startsWithJson == startsWithFence /\ Len(before) = 2 /\ before[2] = "json"
        pre == IF startsWithJson THEN <<>>
               ELSE IF startsWithFence THEN Tail(before) ELSE before
        post == IF startsWithFence /\ after # <<>> /\ after[Len(after)] = "~~~"
                THEN SubSeq(after, 1, Len(after) - 1) ELSE after
        blank(tokens) == \A i \in 1..Len(tokens) : tokens[i] = " "
    IN  IF text = NoText THEN NotNormalized("No analysis generated")
        ELSE IF ~(/\ blank(pre) /\ blank(post)
                  /\ text.body.kind \in {"object", "null", "number", "array"})
        THEN NotNormalized("SyntaxError")
        ELSE IF text.body.kind = "null" THEN NotNormalized("TypeError")
        ELSE Normalized(IF text.body.kind = "object" THEN text.body.fields
                        ELSE NoFields)

Normalizers == {"proxy", "direct"}

\* The model texts the normalizers are applied to: white space or prose
\* before and after, a fence with any tag, closed or not, around a body.
NormalizerTexts ==
    {ModelText(l, f, b, c, t) :
        l \in {"", " ", "prose"}, f \in {"none", "bare", "json", "JSON", "js"},
        b \in {Body("object", GoodFields), Body("number", NoFields),
               Body("invalid", NoFields), Body("broken", NoFields),
               Body("none", NoFields)},
        c \in BOOLEAN, t \in {"", " ", "prose"}}

\* ------------------------------------------------------ App handlers

\* handleAnalyze up to its await: the flags are set and the POST is sent.
StartAnalyze(data, selectedMode) ==
    /\ isAnalyzing' = TRUE
    /\ mode' = selectedMode
    /\ aphase' = "posted"
    /\ areq' = [market |-> data, mode |-> selectedMode]
    /\ aconfig' = Null
    /\ aresp' = Null
    /\ pout' = "none"
    /\ UNCHANGED <<hasKey, alog>>

\* handleFetch up to its await, getMarketData up to its first await.
HandleFetch ==
    /\ gpc = "idle" /\ aphase = "idle"
    /\ \E u \in Inputs :
        IF u.text = ""
        THEN UNCHANGED vars
        ELSE /\ isFetching' = TRUE
             /\ error' = NoError
             /\ analysis' = Null
             /\ marketData' = Null
             /\ input' = u
             /\ parsed' = parsePolymarketUrl(u)
             /\ gpc' = "running"
             /\ IssueRequest(1)
             /\ stratResult' = [k \in Strategies |-> "notrun"]
             /\ UNCHANGED <<appVars, call, draft, fetched, producedBy, isAnalyzing, mode,
                            analysisVars>>

\* handleFetch resumed with the settled getMarketData promise.
HandleFetchResume ==
    /\ gpc \in {"resolved", "rejected"}
    /\ gpc' = "done"
    /\ isFetching' = FALSE
    /\ IF gpc = "resolved"
       THEN /\ marketData' = fetched
            /\ StartAnalyze(fetched, "QUICK")
            /\ UNCHANGED <<error, analysis>>
       ELSE /\ error' = FetchFailedMsg
            /\ UNCHANGED <<marketData, analysis, isAnalyzing, mode,
                           analysisVars>>
    /\ UNCHANGED <<appVars, call, draft, input, parsed, strat, fphase, timer, inflight,
                   issued, stratResult, fetched, producedBy>>

\* --------------------------------------------- analysis request steps

\* The proxy handler up to its await: the key and the body are checked,
\* the configuration is built and generateContent is called.  The outcomes
\* of every Market the App posts are an array, so Array.isArray holds.
ProxyReceives ==
    /\ aphase = "posted"
    /\ IF ~hasKey
       THEN /\ aphase' = "replied" /\ aresp' = NoKeyReply
            /\ UNCHANGED aconfig
       ELSE IF areq.market = Null \/ areq.mode = ""
       THEN /\ aphase' = "replied" /\ aresp' = BadRequestReply
            /\ UNCHANGED aconfig
       ELSE /\ aphase' = "atProvider"
            /\ aconfig' = ProviderConfig(areq.mode = "DEEP")
            /\ UNCHANGED aresp
    /\ UNCHANGED <<appVars, call, fetchVars, uiVars, areq, hasKey, pout, alog>>

\* generateContent throws (network, auth, quota, timeout).
ProviderThrows ==
    /\ aphase = "atProvider"
    /\ aphase' = "replied"
    /\ aresp' = ReplyToThrow
    /\ pout' = "threw"
    /\ UNCHANGED <<appVars, call, fetchVars, uiVars, areq, aconfig, hasKey, alog>>

\* What the provider returned, read off the response itself: no text
\* ("empty"), text that holds no JSON value ("invalid"), a JSON value that
\* is no object or an object lacking a required field ("incomplete"), an
\* object with the four fields ("valid"); "text" is any other text.
OutputClass(response) ==
    LET t == response.text
        bare == t.lead = "" /\ t.trail = "" /\ t.fence = "none"
    IN  IF ~response.hasText \/ t = NoText THEN "empty"
        ELSE IF t.body.kind \in {"invalid", "broken", "none"} THEN "invalid"
        ELSE IF t.body.kind = "object"
        THEN IF \A f \in {"summary", "recommendation", "confidenceScore",
                           "reasoning"} :
                    t.body.fields[f].t \notin {"missing", "null"}
             THEN "valid" ELSE "incomplete"
        ELSE IF bare THEN "incomplete"
        ELSE "text"

\* generateContent returns: the rest of the try block runs.
ProviderReturns ==
    /\ aphase = "atProvider"
    /\ \E response \in ProviderResponses :
        /\ aresp' = ReplyToResponse(response)
        /\ pout' = OutputClass(response)
    /\ aphase' = "replied"
    /\ UNCHANGED <<appVars, call, fetchVars, uiVars, areq, aconfig, hasKey, alog>>

\* analyzeMarket on the proxy's response: a non-2xx status throws, a 2xx
\* body is the result.
ClientResult(reply) ==
    IF reply.status < 200 \/ reply.status > 299
    THEN [rejected |-> TRUE, result |-> Null]
    ELSE [rejected |-> FALSE, result |-> reply.body]

\* handleAnalyze resumed with the settled analyzeMarket promise.
Settle(outcome, status) ==
    /\ IF outcome.rejected
       THEN /\ error' = AnalysisFailedMsg
            /\ UNCHANGED analysis
       ELSE /\ analysis' = outcome.result
            /\ UNCHANGED error
    /\ isAnalyzing' = FALSE
    /\ aphase' = "idle"
    /\ alog' = [provider |-> pout, status |-> status,
                rejected |-> outcome.rejected, mode |-> areq.mode,
                stored |-> analysis' # analysis]
    /\ areq' = Null /\ aconfig' = Null /\ aresp' = Null /\ pout' = "none"
    /\ UNCHANGED <<appVars, call, fetchVars, isFetching, marketData, mode, hasKey>>

\* The proxy's response reaches the client.
ClientReceives ==
    /\ aphase = "replied"
    /\ Settle(ClientResult(aresp), aresp.status)

\* The client's fetch rejects: the proxy is unreachable or the connection
\* drops before the response is in.
TransportFails ==
    /\ aphase \in {"posted", "atProvider", "replied"}
    /\ Settle([rejected |-> TRUE, result |-> Null], 0)

Modes == {"QUICK", "DEEP"}

\* A tab of AnalysisDisplay is clicked.
OnModeChange ==
    \E newMode \in Modes :
        IF marketData # Null /\ ~isAnalyzing
        THEN /\ StartAnalyze(marketData, newMode)
             /\ UNCHANGED <<appVars, call, fetchVars, isFetching, error, marketData, analysis>>
        ELSE /\ mode' = newMode
             /\ UNCHANGED <<appVars, call, fetchVars, isFetching, isAnalyzing, error,
                            marketData, analysis, analysisVars>>

\* ------------------------------------------------------ specification

Init ==
    /\ draft \in Drafts
    /\ input = UrlInput("", FALSE, <<>>, "")
    /\ parsed = [slug |-> "", id |-> "", type |-> "unknown"]
    /\ gpc = "idle"
    /\ strat = 0
    /\ fphase = "none"
    /\ timer = "none"
    /\ inflight = {}
    /\ issued = <<>>
    /\ stratResult = [k \in Strategies |-> "notrun"]
    /\ fetched = Null
    /\ producedBy = 0
    /\ isFetching = FALSE
    /\ isAnalyzing = FALSE
    /\ error = NoError
    /\ marketData = Null
    /\ analysis = Null
    /\ mode = "QUICK"
    /\ aphase = "idle"
    /\ areq = Null
    /\ aconfig = Null
    /\ aresp = Null
    /\ hasKey = TRUE
    /\ pout = "none"
    /\ alog = Null
    /\ call = NoCall
    /\ fetches = {} /\ analyses = {} /\ ulog = NoLog

Next ==
    \/ HandleFetch
    \/ NetworkError
    \/ TimerFires
    \/ ResponseNotOk
    \/ ResponseOk
    \/ BodyArrives
    \/ BodyFails
    \/ HandleFetchResume

Spec == Init /\ [][Next]_vars

\* The analysis of a fetched market: the states handleFetch leaves when
\* every strategy failed for the suggested Bitcoin slug, from which the
\* first (QUICK) analysis and any later tab click run.
BitcoinInput == UrlInput("bitcoin-price-above-100k-2024", TRUE, <<>>, "")

InitAnalysis ==
    /\ draft = "current"
    /\ input = BitcoinInput
    /\ parsed = parsePolymarketUrl(BitcoinInput)
    /\ gpc = "done"
    /\ strat = 0
    /\ fphase = "none"
    /\ timer = "none"
    /\ inflight = {}
    /\ issued = <<1, 2, 4>>
    /\ stratResult = [k \in Strategies |-> IF k = 3 THEN "notrun" ELSE "failed"]
    /\ fetched = getMockData(BitcoinInput, BitcoinInput.text, "0.17")
    /\ producedBy = 0
    /\ isFetching = FALSE
    /\ isAnalyzing = TRUE
    /\ error = NoError
    /\ marketData = fetched
    /\ analysis = Null
    /\ mode = "QUICK"
    /\ aphase = "posted"
    /\ areq = [market |-> fetched, mode |-> "QUICK"]
    /\ aconfig = Null
    /\ aresp = Null
    /\ hasKey \in BOOLEAN
    /\ pout = "none"
    /\ alog = Null
    /\ call = NoCall
    /\ fetches = {} /\ analyses = {} /\ ulog = NoLog

NextAnalysis ==
    \/ ProxyReceives
    \/ ProviderThrows
    \/ ProviderReturns
    \/ ClientReceives
    \/ TransportFails
    \/ OnModeChange

SpecAnalysis == InitAnalysis /\ [][NextAnalysis]_vars

\* --------------------------------------- helper functions on their own

\* A helper about to be applied to an argument, and the same once it has
\* returned.
Pending(fn, arg) == [fn |-> fn, arg |-> arg, done |-> FALSE]
Returned(c, result) ==
    [fn |-> c.fn, arg |-> c.arg, done |-> TRUE, result |-> result]

ParseCalls == {Pending("parsePolymarketUrl", u) : u \in UrlInputs}
ClampCalls == {Pending("clampProbability", v) : v \in Probabilities}
SelectCalls == {Pending("selectMarket", a) : a \in SelectArgs}
BuildCalls == {Pending("buildOutcomes", m) : m \in BuildMarkets}
NormalizeCalls ==
    {Pending("normalize", [by |-> n, text |-> t]) :
        n \in Normalizers, t \in NormalizerTexts}

ApplyNormalize ==
    /\ call.fn = "normalize" /\ ~call.done
    /\ call' = Returned(call,
                    IF call.arg.by = "proxy" THEN proxyNormalize(call.arg.text)
                    ELSE directNormalize(call.arg.text))
    /\ UNCHANGED <<appVars, fetchVars, uiVars, analysisVars>>

\* The handler's try block applied to one provider response.
ResponseCalls ==
    {Pending("replyToResponse", r) : r \in ProviderResponses}

ApplyReplyToResponse ==
    /\ call.fn = "replyToResponse" /\ ~call.done
    /\ call' = Returned(call, ReplyToResponse(call.arg))
    /\ UNCHANGED <<appVars, fetchVars, uiVars, analysisVars>>

ApplyBuildOutcomes ==
    /\ call.fn = "buildOutcomes" /\ ~call.done
    /\ call' = Returned(call, buildOutcomes(call.arg))
    /\ UNCHANGED <<appVars, fetchVars, uiVars, analysisVars>>

\* The sub-market transformEventData works on, in the bundled draft.
ApplySelectMarket ==
    /\ call.fn = "selectMarket" /\ ~call.done
    /\ call' = Returned(call,
                    IF draft = "legacy"
                    THEN legacySelect(call.arg.markets, call.arg.targetId)
                    ELSE selectMarket(call.arg.markets, call.arg.targetId))
    /\ UNCHANGED <<appVars, fetchVars, uiVars, analysisVars>>

ApplyClampProbability ==
    /\ call.fn = "clampProbability" /\ ~call.done
    /\ call' = Returned(call, clampProbability(call.arg))
    /\ UNCHANGED <<appVars, fetchVars, uiVars, analysisVars>>

ApplyParsePolymarketUrl ==
    /\ call.fn = "parsePolymarketUrl" /\ ~call.done
    /\ call' = Returned(call, parsePolymarketUrl(call.arg))
    /\ UNCHANGED <<appVars, fetchVars, uiVars, analysisVars>>

InitFunctions ==
    /\ draft \in Drafts
    /\ input = UrlInput("", FALSE, <<>>, "")
    /\ parsed = [slug |-> "", id |-> "", type |-> "unknown"]
    /\ gpc = "idle"
    /\ strat = 0
    /\ fphase = "none"
    /\ timer = "none"
    /\ inflight = {}
    /\ issued = <<>>
    /\ stratResult = [k \in Strategies |-> "notrun"]
    /\ fetched = Null
    /\ producedBy = 0
    /\ isFetching = FALSE
    /\ isAnalyzing = FALSE
    /\ error = NoError
    /\ marketData = Null
    /\ analysis = Null
    /\ mode = "QUICK"
    /\ aphase = "idle"
    /\ areq = Null
    /\ aconfig = Null
    /\ aresp = Null
    /\ hasKey = TRUE
    /\ pout = "none"
    /\ alog = Null
    /\ fetches = {} /\ analyses = {} /\ ulog = NoLog
    /\ \/ call \in ParseCalls
       \/ call \in ClampCalls
       \/ call \in SelectCalls
       \/ call \in BuildCalls
       \/ call \in NormalizeCalls
       \/ call \in ResponseCalls

NextFunctions ==
    \/ ApplyParsePolymarketUrl
    \/ ApplyClampProbability
    \/ ApplySelectMarket
    \/ ApplyBuildOutcomes
    \/ ApplyNormalize
    \/ ApplyReplyToResponse

SpecFunctions == InitFunctions /\ [][NextFunctions]_vars

\* The analysis steps with the scheduling the code has: the proxy handles a
\* request that reached it and the client resumes on a response that is
\* in.  The provider and the network owe no answer, the user no click, and
\* neither analyzeMarket's caller nor the handler arms a timer or passes an
\* abort signal.
\* ------------------------------------------- App: overlapping requests

\* The texts submitted: two of the suggested markets.
UIInputs ==
    {"presidential-election-winner-2024", "bitcoin-price-above-100k-2024"}

\* The Market getMarketData resolves with for a submitted text.
MarketFor(u) == [market |-> u]

\* What analyzeMarket resolves with, named by the request it answers.
ResultFor(a) == [market |-> a.market, mode |-> a.mode]

\* handleFetch up to its await.  Enter in the text input calls it whatever
\* isFetching is; the analysis its resolution starts is counted with it.
SubmitUrl ==
    /\ ulog.requests + 2 <= MaxRequests
    /\ \E u \in UIInputs :
        /\ isFetching' = TRUE
        /\ error' = NoError
        /\ analysis' = Null
        /\ marketData' = Null
        /\ fetches' = fetches \cup {[n |-> ulog.requests + 1, input |-> u]}
        /\ ulog' = [ulog EXCEPT !.submitted = u, !.requests = @ + 2]
    /\ UNCHANGED <<fetchVars, analysisVars, call, analyses, isAnalyzing, mode>>

\* handleAnalyze up to its await.
BeginAnalyze(n, data, selectedMode) ==
    /\ isAnalyzing' = TRUE
    /\ mode' = selectedMode
    /\ analyses' = analyses \cup
                        {[n |-> n, market |-> data, mode |-> selectedMode]}

\* handleFetch resumed by one of its getMarketData calls (which resolves,
\* the placeholder being its last resort): the market is stored, the QUICK
\* analysis is started without being awaited, isFetching is reset.
FetchResolves ==
    /\ \E f \in fetches :
        /\ fetches' = fetches \ {f}
        /\ marketData' = MarketFor(f.input)
        /\ BeginAnalyze(f.n + 1, MarketFor(f.input), "QUICK")
    /\ isFetching' = FALSE
    /\ UNCHANGED <<fetchVars, analysisVars, call, ulog, error, analysis>>

\* handleAnalyze resumed by a resolved analyzeMarket call.
AnalysisResolves ==
    /\ \E a \in analyses :
        /\ analyses' = analyses \ {a}
        /\ analysis' = ResultFor(a)
    /\ isAnalyzing' = FALSE
    /\ ulog' = [ulog EXCEPT !.settled = "ok"]
    /\ UNCHANGED <<fetchVars, analysisVars, call, fetches, isFetching, error,
                   marketData, mode>>

\* handleAnalyze resumed by a rejected analyzeMarket call.
AnalysisRejects ==
    /\ \E a \in analyses : analyses' = analyses \ {a}
    /\ error' = AnalysisFailedMsg
    /\ isAnalyzing' = FALSE
    /\ ulog' = [ulog EXCEPT !.settled = "failed"]
    /\ UNCHANGED <<fetchVars, analysisVars, call, fetches, isFetching,
                   marketData, analysis, mode>>

\* onModeChange, from a tab of AnalysisDisplay (rendered while marketData
\* is set; the tabs are never disabled).
SwitchMode ==
    /\ marketData # Null
    /\ \E newMode \in Modes :
        IF ~isAnalyzing
        THEN /\ ulog.requests < MaxRequests
             /\ BeginAnalyze(ulog.requests + 1, marketData, newMode)
             /\ ulog' = [ulog EXCEPT !.requests = @ + 1]
        ELSE /\ mode' = newMode
             /\ UNCHANGED <<analyses, isAnalyzing, ulog>>
    /\ UNCHANGED <<fetchVars, analysisVars, call, fetches, isFetching, error,
                   marketData, analysis>>

NextUI ==
    \/ SubmitUrl
    \/ FetchResolves
    \/ AnalysisResolves
    \/ AnalysisRejects
    \/ SwitchMode

SpecUI == Init /\ [][NextUI]_vars

SpecAnalysisLive ==
    /\ InitAnalysis
    /\ [][NextAnalysis]_vars
    /\ WF_vars(ProxyReceives)
    /\ WF_vars(ClientReceives)

\* ------------------------------------------------------------- claims

Failed == {"failed", "empty", "threw"}

\* C1: getMarketData never rejects, whatever each upstream request does
\* (network error, timeout, non-2xx, empty list, a payload the normaliser
\* throws on); when it settles it is with a Market, and the App never shows
\* its "Failed to fetch market data" error.
C1_NeverRejects ==
    /\ gpc # "rejected"
    /\ error # FetchFailedMsg
    /\ gpc = "resolved" => fetched # Null
    /\ gpc = "done" => marketData = fetched /\ marketData # Null

\* A call that resolved although a normaliser threw on a non-empty payload.
C1_Witness ==
    /\ gpc = "resolved"
    /\ \E k \in Strategies : stratResult[k] = "threw"
    /\ \E k \in Strategies : stratResult[k] = "failed"

\* The order in which the strategies may be issued for a secondary id.
ExpectedOrder(id) == IF id # "" THEN <<1, 2, 3, 4>> ELSE <<1, 2, 4>>

\* C7: the requests are issued in the order events, markets, by id, search;
\* each only after every earlier strategy has failed (a request failure, an
\* empty result or a normaliser exception); at most one request is in
\* flight; the query by id is issued only when a secondary id was resolved.
C7_StrategiesInOrder ==
    /\ Cardinality(inflight) <= 1
    /\ inflight \subseteq (IF issued = <<>> THEN {} ELSE {issued[Len(issued)]})
    /\ Len(issued) <= Len(ExpectedOrder(parsed.id))
    /\ \A i \in 1..Len(issued) : issued[i] = ExpectedOrder(parsed.id)[i]
    /\ \A i \in 1..(Len(issued) - 1) : stratResult[issued[i]] \in Failed
    /\ (\E i \in 1..Len(issued) : issued[i] = 3) => parsed.id # ""

\* All four requests of one call were issued, the query by id among them.
C7_Witness ==
    /\ issued = <<1, 2, 3, 4>>
    /\ inflight = {4}
    /\ parsed.id = "7"

\* C8 as stated: a strategy whose query returned a non-empty result ends
\* the chain, the Market is built from it and no later request is issued.
C8_NonEmptyResultEndsChain ==
    /\ \A i \in 1..(Len(issued) - 1) :
            stratResult[issued[i]] \notin {"ok", "threw"}
    /\ \A k \in Strategies :
            stratResult[k] \in {"ok", "threw"} =>
                gpc \in {"resolved", "done"} /\ producedBy = k

\* C8 amended: a strategy whose non-empty result the normaliser turns into a
\* Market ends the chain (no later request is issued, and the events result
\* goes through the event path); a non-empty result the normaliser throws
\* on counts as a failure of that strategy.
C8_FirstBuiltMarketEndsChain ==
    /\ \A i \in 1..(Len(issued) - 1) : stratResult[issued[i]] # "ok"
    /\ \A k \in Strategies :
            stratResult[k] = "ok" =>
                /\ gpc \in {"resolved", "done"}
                /\ producedBy = k
                /\ issued[Len(issued)] = k
                /\ inflight = {}
                /\ fetched.url[1] = IF k = 1 THEN "https://polymarket.com/event/"
                                    ELSE "https://polymarket.com/market/"

\* The events query returned an event without sub-markets, the markets
\* query was issued after it and built the Market.
C8_Witness ==
    /\ gpc = "resolved"
    /\ stratResult[1] = "threw"
    /\ stratResult[2] = "ok"
    /\ producedBy = 2

\* C9: the call returns the placeholder (id "mock-...") exactly when every
\* strategy it attempted failed; a Market built from an upstream payload is
\* what the call returns; the placeholder is an ordinary resolved value.
C9_PlaceholderIffAllFailed ==
    /\ gpc = "resolved" =>
        /\ StartsWithMock(fetched.id) <=>
                \A i \in 1..Len(issued) : stratResult[issued[i]] \in Failed
        /\ StartsWithMock(fetched.id) <=> producedBy = 0
        /\ error = NoError
    /\ gpc = "done" => marketData = fetched /\ error = NoError

\* The placeholder returned after all four strategies failed.
C9_Witness ==
    /\ gpc = "done"
    /\ issued = <<1, 2, 3, 4>>
    /\ \A k \in Strategies : stratResult[k] \in Failed
    /\ StartsWithMock(marketData.id)

\* The outcomes list of a Market is sorted by non-increasing probability.
RECURSIVE IsSortedDesc(_)
IsSortedDesc(outcomes) ==
    \/ Len(outcomes) <= 1
    \/ /\ outcomes[1].probability >= outcomes[2].probability
       /\ IsSortedDesc(Tail(outcomes))

InUnitRange(v) == IsFinite(v) /\ 0 <= v /\ v <= One

\* C6: every Market getMarketData returns has a non-empty outcomes list,
\* sorted by non-increasing probability, every probability and price in
\* [0,1].
C6_OutcomesWellFormed ==
    gpc = "resolved" =>
        /\ Len(fetched.outcomes) > 0
        /\ IsSortedDesc(fetched.outcomes)
        /\ \A i \in 1..Len(fetched.outcomes) :
                /\ InUnitRange(fetched.outcomes[i].probability)
                /\ InUnitRange(fetched.outcomes[i].price)

\* C10: a call that has not completed, waiting for the response or reading
\* it, still has its timeout armed, so that the abort can end it.
C10_PendingCallHasTimer ==
    (gpc = "running" /\ fphase \in {"waiting", "reading"}) => timer = "armed"

Is2xx(status) == 200 <= status /\ status <= 299

\* C2: when the provider call throws or returns empty text, the proxy
\* answers with a non-2xx status and a message and no Recommendation, the
\* client rejects, and the App records the analysis error and stores no
\* Recommendation for that request.
C2_ProviderFailureIsExplicit ==
    /\ (aphase = "replied" /\ pout \in {"threw", "empty"}) =>
            /\ ~Is2xx(aresp.status)
            /\ aresp.message # ""
            /\ aresp.body = Null
            /\ ClientResult(aresp).rejected
    /\ (alog # Null /\ alog.provider \in {"threw", "empty"}) =>
            /\ alog.rejected
            /\ ~alog.stored
            /\ error = AnalysisFailedMsg

\* A Deep-mode request whose provider call threw was answered with status
\* 500 and settled as an error.
C2_Witness ==
    /\ alog # Null
    /\ alog.provider = "threw"
    /\ alog.mode = "DEEP"
    /\ alog.status = 500
    /\ alog.rejected
    /\ error = AnalysisFailedMsg
    /\ ~isAnalyzing

\* A field of the Recommendation that holds a value.
Present(v) == v.t \notin {"missing", "null"}

ConfidenceScores == {n * One : n \in 0..100}

\* C3: the confidenceScore of every Recommendation a caller receives is an
\* integer in [0,100]; other numbers are clamped and non-numbers become 0.
C3_ConfidenceScoreInRange ==
    /\ (/\ aphase = "replied" /\ Is2xx(aresp.status)
        /\ Present(aresp.body.confidenceScore)) =>
            /\ aresp.body.confidenceScore.t = "number"
            /\ NumberOf(aresp.body.confidenceScore.v[1]) \in ConfidenceScores
    /\ (analysis # Null /\ Present(analysis.confidenceScore)) =>
            /\ analysis.confidenceScore.t = "number"
            /\ NumberOf(analysis.confidenceScore.v[1]) \in ConfidenceScores

RequiredFields == {"summary", "recommendation", "confidenceScore", "reasoning"}

\* C4: a 2xx analysis response always carries summary, recommendation,
\* confidenceScore and reasoning; output that lacks one of them, holds null
\* for it or is no JSON object is answered as a validation failure.
C4_RequiredFieldsPresent ==
    (aphase = "replied" /\ Is2xx(aresp.status)) =>
        \A f \in RequiredFields : aresp.body[f].t \notin {"missing", "null"}

RecommendationTypes == {"BUY", "SELL", "HOLD", "AVOID"}

\* C5: the recommendation of every Recommendation a caller receives is one
\* of BUY, SELL, HOLD, AVOID: the model's value upper-cased, HOLD when it
\* is none of the four.
C5_RecommendationInEnum ==
    /\ (/\ aphase = "replied" /\ Is2xx(aresp.status)
        /\ Present(aresp.body.recommendation)) =>
            /\ aresp.body.recommendation.t = "string"
            /\ aresp.body.recommendation.v[1] \in RecommendationTypes
    /\ (analysis # Null /\ Present(analysis.recommendation)) =>
            /\ analysis.recommendation.t = "string"
            /\ analysis.recommendation.v[1] \in RecommendationTypes

\* C11: an analysis in progress always ends: when the backend never
\* answers, a timeout or cancellation fails the call and the App leaves the
\* analyzing state.
C11_AnalysisEventuallySettles == isAnalyzing ~> ~isAnalyzing

ParseReturned == call.fn = "parsePolymarketUrl" /\ call.done

\* C12: parsePolymarketUrl returns for every input; when new URL() throws
\* or the URL has no path segment the result is the whole input as the
\* slug, with no secondary id.
C12_FallbackToWholeInput ==
    (call.fn = "parsePolymarketUrl") =>
        /\ ENABLED ApplyParsePolymarketUrl \/ call.done
        /\ (call.done /\ (~call.arg.urlOk \/ call.arg.pathParts = <<>>)) =>
                /\ call.result.slug = call.arg.text
                /\ call.result.id = ""

\* A URL without a path segment that carries a tid: the whole input is the
\* slug and the tid is dropped.
C12_Witness ==
    /\ ParseReturned
    /\ call.arg.urlOk /\ call.arg.pathParts = <<>> /\ call.arg.tid = "7"
    /\ call.result.slug = call.arg.text
    /\ call.result.id = ""

\* C13 as stated: the slug is the segment after the first "event" when
\* "event" is in the path, else the segment after the first "market" when
\* "market" is in the path, else the last segment; the id is the tid.
C13_SlugAfterKeyword ==
    (ParseReturned /\ call.arg.urlOk /\ call.arg.pathParts # <<>>) =>
        LET parts == call.arg.pathParts
        IN  /\ call.result.id = call.arg.tid
            /\ IF Includes(parts, "event")
               THEN /\ IndexOf(parts, "event") < Len(parts)
                    /\ call.result.slug = parts[IndexOf(parts, "event") + 1]
               ELSE IF Includes(parts, "market")
               THEN /\ IndexOf(parts, "market") < Len(parts)
                    /\ call.result.slug = parts[IndexOf(parts, "market") + 1]
               ELSE call.result.slug = parts[Len(parts)]

\* The keyword rule that applies to a path: its first occurrence of the
\* keyword is followed by a segment.
Followed(parts, seg) ==
    \E i \in 1..(Len(parts) - 1) :
        /\ parts[i] = seg
        /\ \A j \in 1..(i - 1) : parts[j] # seg

After(parts, seg) ==
    parts[1 + CHOOSE i \in 1..(Len(parts) - 1) :
                /\ parts[i] = seg
                /\ \A j \in 1..(i - 1) : parts[j] # seg]

\* C13 amended: the slug is the segment after the first "event" when that
\* segment exists, else the segment after the first "market" when that
\* segment exists, else the last segment (a keyword that ends the path is
\* passed over); the id is the tid when it is non-empty.
C13_SlugAfterFollowedKeyword ==
    (ParseReturned /\ call.arg.urlOk /\ call.arg.pathParts # <<>>) =>
        LET parts == call.arg.pathParts
        IN  /\ call.result.id = call.arg.tid
            /\ call.result.slug =
                    IF Followed(parts, "event") THEN After(parts, "event")
                    ELSE IF Followed(parts, "market") THEN After(parts, "market")
                    ELSE parts[Len(parts)]

\* A path with both keywords whose "event" is the final segment: the slug
\* comes from the market rule.
C13_Witness ==
    /\ ParseReturned
    /\ call.arg.pathParts = <<"market", "btc-100k", "event">>
    /\ call.arg.tid = "7"
    /\ call.result.slug = "btc-100k"
    /\ call.result.id = "7"

ClampReturned == call.fn = "clampProbability" /\ call.done

\* p limited to [0,1].
Clamp01(p) == IF p < 0 THEN 0 ELSE IF p > One THEN One ELSE p

\* C15: clampProbability(p) lies in [0,1]; for p > 1.01 it is p/100 limited
\* to [0,1], for p <= 1.01 it is p limited to [0,1], and for a non-finite p
\* it is 0.
C15_ClampProbability ==
    ClampReturned =>
        LET p == call.arg
        IN  /\ 0 <= call.result /\ call.result <= One
            /\ p \in {NaN, PosInf, NegInf} => call.result = 0
            /\ (p \notin {NaN, PosInf, NegInf} /\ p > 10100) =>
                    call.result = Clamp01(p \div 100)
            /\ (p \notin {NaN, PosInf, NegInf} /\ p <= 10100) =>
                    call.result = Clamp01(p)

\* A percent-scale price: 65 is rescaled to 0.65.
C15_Witness ==
    /\ ClampReturned
    /\ call.arg = 65 * One
    /\ call.result = 6500

SelectReturned == call.fn = "selectMarket" /\ call.done

\* The least index of a non-empty set of indices.
Least(S) == CHOOSE i \in S : \A j \in S : i <= j

\* The sub-market the selection rule names: the id match, else the first
\* active one, else the earliest of those with the highest volume.
RuleSelection(ms, tid) ==
    LET vol(i) == IF ms[i].volume = "" THEN 0 ELSE NumberOf(ms[i].volume)
        matches == {i \in 1..Len(ms) : ms[i].id = tid}
        actives == {i \in 1..Len(ms) : ms[i].active = "true"}
        best == {i \in 1..Len(ms) : \A j \in 1..Len(ms) : vol(j) <= vol(i)}
    IN  ms[IF tid # "" /\ matches # {} THEN Least(matches)
           ELSE IF actives # {} THEN Least(actives)
           ELSE Least(best)]

\* C14: the sub-market of an event payload that is used is the one whose
\* id equals the secondary id, else the first active one, else the one
\* with the highest volume (the earliest on ties, no volume counting as 0).
C14_SubMarketSelection ==
    (SelectReturned /\ call.arg.markets # <<>>) =>
        call.result = RuleSelection(call.arg.markets, call.arg.targetId)

BuildReturned == call.fn = "buildOutcomes" /\ call.done

\* A names or prices field that holds a non-empty list, in any of the three
\* encodings.
HoldsList(field) ==
    field.form \in {"list", "json", "csv"} /\ field.items # <<>>

\* A prices field whose list is all numbers.
HoldsNumbers(field) ==
    /\ HoldsList(field)
    /\ \A i \in 1..Len(field.items) : NumberOf(field.items[i]) # NaN

PriceSource(m) ==
    IF m.outcomePrices # Absent THEN m.outcomePrices
    ELSE IF m.prices # Absent THEN m.prices
    ELSE m.outcomeProbability

\* No names source of the payload holds a list: not outcomes, not
\* groupOutcomes, and there is neither a group item title nor a question.
NoNames(m) ==
    /\ ~HoldsList(m.outcomes) /\ ~HoldsList(m.groupOutcomes)
    /\ m.groupItemTitle = "" /\ m.question = ""

C17_ReasoningIsList ==
    /\ (aphase = "replied" /\ Is2xx(aresp.status)) =>
            /\ aresp.body.reasoning.t = "array"
            /\ aresp.body.reasoning.v # <<>>
    /\ analysis # Null =>
            /\ analysis.reasoning.t = "array"
            /\ analysis.reasoning.v # <<>>

\* C18: model output that is no valid JSON or lacks a required field is
\* answered with a non-2xx status and a message other than the one of a
\* provider failure; with no API key every request is answered 500 and the
\* provider is not called.
C18_FailuresAreDistinct ==
    /\ (aphase = "replied" /\ pout \in {"invalid", "incomplete"}) =>
            /\ ~Is2xx(aresp.status)
            /\ aresp.message # ""
            /\ aresp.message # ReplyToThrow.message
    /\ (aphase = "replied" /\ ~hasKey) =>
            /\ aresp.status = 500
            /\ pout = "none"
            /\ aconfig = Null
    /\ aphase = "atProvider" => hasKey

NormalizeReturned == call.fn = "normalize" /\ call.done

\* The text has prose around its body, so that it is no JSON as a whole.
HasProse(text) == text.lead = "prose" \/ text.trail = "prose"

\* C19: a text that is prose around a JSON object yields the object's
\* Recommendation (the text between the first and the last brace is
\* parsed); a text with no parseable object between braces fails with the
\* invalid-JSON error and yields no Recommendation.
C19_EmbeddedObjectIsUsed ==
    NormalizeReturned =>
        LET text == call.arg.text
        IN  /\ (HasProse(text) /\ text.body.kind = "object") =>
                    /\ call.result.ok
                    /\ call.result.fields = text.body.fields
            /\ (HasProse(text) /\ text.body.kind \in {"invalid", "broken", "none"}) =>
                    /\ ~call.result.ok
                    /\ call.result.message = InvalidJsonReply.message

\* The same text without its fence and the white space around it.
Unwrapped(text) == ModelText("", "none", text.body, FALSE, "")

\* A JSON object inside a closed fence, white space at most around it.
IsFencedObject(text) ==
    /\ text.body.kind = "object"
    /\ text.fence # "none" /\ text.close
    /\ text.lead \in {"", " "} /\ text.trail \in {"", " "}

\* C20: a JSON object wrapped in a code fence (any or no language tag,
\* white space around it) is normalised to the same Recommendation as the
\* object on its own.
C20_FenceIsTransparent ==
    (NormalizeReturned /\ IsFencedObject(call.arg.text)) =>
        /\ call.result.ok
        /\ call.result =
                (IF call.arg.by = "proxy"
                 THEN proxyNormalize(Unwrapped(call.arg.text))
                 ELSE directNormalize(Unwrapped(call.arg.text)))

\* The payload with its names and prices fields supplied as native lists
\* of the same elements.
AsNativeLists(m) ==
    [m EXCEPT !.outcomes = NativeList(m.outcomes.items),
              !.outcomePrices = NativeList(m.outcomePrices.items)]

\* C21: buildOutcomes gives the same outcome list whether the names and
\* the prices are supplied as native lists, as JSON-encoded strings or as
\* comma-separated strings, for every non-empty list, one-element lists of
\* a JSON scalar included.
C21_EncodingIndependent ==
    (/\ BuildReturned
     /\ HoldsList(call.arg.outcomes) /\ HoldsList(call.arg.outcomePrices)) =>
        call.result = buildOutcomes(AsNativeLists(call.arg))

\* C22: the provider configuration never has both the search tool and the
\* response schema: a DEEP request has the search tool, no schema, no JSON
\* mime type and the budget 16384; any other request has the schema, the
\* JSON mime type, no search tool and the budget 2048.
C22_SearchExcludesSchema ==
    aconfig # Null =>
        /\ ~(aconfig.googleSearch /\ aconfig.responseSchema)
        /\ areq.mode = "DEEP" =>
                /\ aconfig.googleSearch
                /\ ~aconfig.responseSchema
                /\ aconfig.responseMimeType = ""
                /\ aconfig.thinkingBudget = 16384
        /\ areq.mode # "DEEP" =>
                /\ ~aconfig.googleSearch
                /\ aconfig.responseSchema
                /\ aconfig.responseMimeType = "application/json"
                /\ aconfig.thinkingBudget = 2048

\* A DEEP request at the provider, after a QUICK one has settled.
C22_Witness ==
    /\ aphase = "atProvider"
    /\ areq.mode = "DEEP"
    /\ aconfig.googleSearch
    /\ aconfig.thinkingBudget = 16384
    /\ alog # Null /\ alog.mode = "QUICK"

\* The chunk an entry was taken from: the first one with the entry's url
\* and title (the url standing for a missing title); 0 when there is none.
Origin(chunks, e) ==
    LET from == {i \in 1..Len(chunks) :
                    /\ chunks[i].uri = e.url
                    /\ e.title = (IF chunks[i].title # "" THEN chunks[i].title
                                  ELSE chunks[i].uri)}
    IN  IF from = {} THEN 0 ELSE Least(from)

\* A sources field well formed for the chunks it was extracted from.
SourcesOk(chunks, field) ==
    LET items == field.items
    IN  /\ field.present <=> items # <<>>
        /\ \A i \in 1..Len(items) :
                /\ items[i].title # "" /\ items[i].url # ""
                /\ Origin(chunks, items[i]) > 0
        /\ \A i, j \in 1..Len(items) :
                i < j => /\ items[i].url # items[j].url
                         /\ Origin(chunks, items[i]) < Origin(chunks, items[j])

RECURSIVE TotalProbability(_)
TotalProbability(outcomes) ==
    IF outcomes = <<>> THEN 0
    ELSE Head(outcomes).probability + TotalProbability(Tail(outcomes))

OutcomeNames(outcomes) == [i \in 1..Len(outcomes) |-> outcomes[i].name]

\* C24: the placeholder is keyed on the slug: "btc" or "bitcoin" gives the
\* Bitcoin question with the Yes/No pair, "election" or "trump" gives the
\* three-outcome election list, any other slug gives the Yes/No pair under
\* a question made from the slug; the probabilities sum to 1 in every case.
C24_PlaceholderKeyedOnSlug ==
    (gpc = "resolved" /\ producedBy = 0) =>
        LET slug == parsed.slug
            isBtc == SlugIncludes(slug, "btc") \/ SlugIncludes(slug, "bitcoin")
            isElection == SlugIncludes(slug, "election")
                            \/ SlugIncludes(slug, "trump")
            names == OutcomeNames(fetched.outcomes)
        IN  /\ isBtc =>
                /\ fetched.question = <<"Will Bitcoin hit $100k in 2024?">>
                /\ names = <<"Yes", "No">>
            /\ isElection => names = <<"Trump", "Harris", "Other">>
            /\ (~isBtc /\ ~isElection) =>
                /\ fetched.question = <<"Prediction Market: ", Dehyphen(slug)>>
                /\ names = <<"Yes", "No">>
            /\ TotalProbability(fetched.outcomes) = One

\* C25: on every exit path of fetchWithTimeout (a body, a non-2xx status, a
\* network error, an unreadable body, the abort) the timer has been cleared:
\* no timer is pending once the call has settled, and a timer that can still
\* fire belongs to a call that is awaiting its response.
C25_TimerClearedOnExit ==
    /\ fphase = "none" => timer = "none"
    /\ timer = "armed" => (gpc = "running" /\ fphase = "waiting")
    /\ ENABLED TimerFires => fphase = "waiting"

\* The last call of a chain ended by an error: no timer is left behind.
C25_Witness ==
    /\ gpc = "resolved"
    /\ issued = <<1, 2, 3, 4>>
    /\ stratResult[4] \in Failed
    /\ fphase = "none" /\ timer = "none"

\* The Recommendation is on screen: AnalysisDisplay is rendered, is not
\* loading and has a result.
ShowsResult == marketData # Null /\ ~isAnalyzing /\ analysis # Null

\* C26: under any interleaving of submissions, mode switches and
\* completions, the analysis on screen was produced from the market on
\* screen.
C26_AnalysisOfDisplayedMarket ==
    ShowsResult => analysis.market = marketData

\* C27: when no analysis is running and a result is on screen, the result
\* was produced by a request in the selected mode.
C27_ResultInSelectedMode ==
    ShowsResult => analysis.mode = mode

\* C28: once every getMarketData call has settled, the market on screen is
\* the one of the most recently submitted text.
C28_LatestSubmissionWins ==
    (fetches = {} /\ ulog.submitted # "") =>
        marketData = MarketFor(ulog.submitted)

\* C29: when the most recently completed analysis succeeded, no error
\* message is on screen.
C29_NoErrorAfterSuccess ==
    ulog.settled = "ok" => error = NoError

\* C30: isAnalyzing is true whenever at least one analysis is in flight and
\* false once every started analysis has settled.
C30_IsAnalyzingTracksInFlight ==
    isAnalyzing <=> analyses # {}
=============================================================================
